---- MODULE Spec2Model ----
(***************************************************************************)
(* tiny_vect: the Vect2 and Vect3 value types (src/vect2.rs, src/vect3.rs) *)
(*                                                                         *)
(* f32 is modelled as a binary floating-point format of the IEEE-754       *)
(* shape: sign, MantBits bits of significand, gradual underflow            *)
(* (subnormals), signed zeros, two infinities and NaN, every operation     *)
(* rounded to nearest, ties to even.  f32 itself has 24 significand bits   *)
(* and exponents -126..127; the model keeps the structure and shrinks the  *)
(* two widths (MantBits, ExpBias) so that every value can be enumerated.   *)
(***************************************************************************)
EXTENDS Integers, Sequences, FiniteSets, TLC

\* ------------------------------------------------------------------------
\* Bounds of the model
\* ------------------------------------------------------------------------
\* significand bits of the float format (f32: 24)
MantBits == 3
\* number of binades of normal numbers below 1.0 (f32: 126)
ExpBias == 3
\* longest slice handed to try_from
MaxLen == 4
\* largest index handed to Index / IndexMut
MaxIndex == 4

\* ------------------------------------------------------------------------
\* The float format.  A finite float is sign s (0 = plus, 1 = minus) and a
\* magnitude n counted in units of the smallest subnormal; 1.0 is OneN
\* units.  Representable magnitudes are m * 2^j with m < 2^MantBits and
\* 0 <= j <= MaxShift.
\* ------------------------------------------------------------------------
Radix == 2 ^ MantBits
OneN == 2 ^ (MantBits - 1 + ExpBias)
MaxShift == 2 * ExpBias
MaxN == (Radix - 1) * (2 ^ MaxShift)

Fin(s, n) == [k |-> "fin", s |-> s, n |-> n]
Inf(s) == [k |-> "inf", s |-> s, n |-> 0]
NaN == [k |-> "nan", s |-> 0, n |-> 0]

Zero == Fin(0, 0)
NegZero == Fin(1, 0)
One == Fin(0, OneN)
Two == Fin(0, 2 * OneN)
\* f32::MAX: the largest finite value
MAX == Fin(0, MaxN)
\* the smallest positive (subnormal) value: its square underflows to zero
Tiny == Fin(0, 1)
\* f32::EPSILON: the gap between 1.0 and the next float
EPSILON == Fin(0, OneN \div (2 ^ (MantBits - 1)))

\* smallest j >= 0 with a / (d * 2^j) < Radix
RECURSIVE ShiftOf(_, _, _)
ShiftOf(a, d, j) ==
    IF a < Radix * d * (2 ^ j) THEN j ELSE ShiftOf(a, d, j + 1)

\* the exact value a / d (in units), rounded to nearest, ties to even;
\* a magnitude beyond MaxN after rounding overflows to infinity
Round(s, a, d) ==
    LET j == ShiftOf(a, d, 0)
        dd == d * (2 ^ j)
        q == a \div dd
        r == a % dd
        m == IF 2 * r > dd \/ (2 * r = dd /\ q % 2 = 1) THEN q + 1 ELSE q
        n == m * (2 ^ j)
    IN  IF n > MaxN THEN Inf(s) ELSE Fin(s, n)

is_nan(a) == a.k = "nan"
is_finite(a) == a.k = "fin"
FIsZero(a) == a.k = "fin" /\ a.n = 0

\* the real number a finite float stands for, in units, with its sign
Signed(a) == IF a.s = 1 THEN 0 - a.n ELSE a.n

FNeg(a) == IF is_nan(a) THEN NaN ELSE [a EXCEPT !.s = 1 - a.s]
FAbs(a) == IF is_nan(a) THEN NaN ELSE [a EXCEPT !.s = 0]

FAdd(a, b) ==
    IF is_nan(a) \/ is_nan(b) THEN NaN
    ELSE IF a.k = "inf" /\ b.k = "inf"
         THEN IF a.s = b.s THEN a ELSE NaN
    ELSE IF a.k = "inf" THEN a
    ELSE IF b.k = "inf" THEN b
    ELSE LET v == Signed(a) + Signed(b)
         IN  IF v = 0
             THEN IF a.s = 1 /\ b.s = 1 THEN NegZero ELSE Zero
             ELSE IF v < 0 THEN Round(1, 0 - v, 1) ELSE Round(0, v, 1)

FSub(a, b) == FAdd(a, FNeg(b))

FMul(a, b) ==
    LET s == (a.s + b.s) % 2
    IN  IF is_nan(a) \/ is_nan(b) THEN NaN
        ELSE IF a.k = "inf" \/ b.k = "inf"
             THEN IF FIsZero(a) \/ FIsZero(b) THEN NaN ELSE Inf(s)
        ELSE Round(s, a.n * b.n, OneN)

FDiv(a, b) ==
    LET s == (a.s + b.s) % 2
    IN  IF is_nan(a) \/ is_nan(b) THEN NaN
        ELSE IF a.k = "inf"
             THEN IF b.k = "inf" THEN NaN ELSE Inf(s)
        ELSE IF b.k = "inf" THEN Fin(s, 0)
        ELSE IF FIsZero(b)
             THEN IF FIsZero(a) THEN NaN ELSE Inf(s)
        ELSE Round(s, a.n * OneN, b.n)

\* IEEE comparison: NaN is unordered, +0 equals -0
FEq(a, b) ==
    /\ ~is_nan(a)
    /\ ~is_nan(b)
    /\ \/ FIsZero(a) /\ FIsZero(b)
       \/ a = b

FLt(a, b) ==
    /\ ~is_nan(a)
    /\ ~is_nan(b)
    /\ ~FEq(a, b)
    /\ IF a.k = "inf" THEN a.s = 1
       ELSE IF b.k = "inf" THEN b.s = 0
       ELSE Signed(a) < Signed(b)

FGe(a, b) == ~is_nan(a) /\ ~is_nan(b) /\ ~FLt(a, b)

\* floor of the square root of a natural number, by bisection:
\* lo * lo <= a < hi * hi
RECURSIVE ISqrtIn(_, _, _)
ISqrtIn(a, lo, hi) ==
    IF hi - lo <= 1 THEN lo
    ELSE LET mid == (lo + hi) \div 2
         IN  IF mid * mid <= a THEN ISqrtIn(a, mid, hi) ELSE ISqrtIn(a, lo, mid)
ISqrt(a) == ISqrtIn(a, 0, 2 ^ 15)

\* smallest j >= 0 with sqrt(a) / 2^j < Radix
RECURSIVE SqrtShiftOf(_, _)
SqrtShiftOf(a, j) ==
    IF a < Radix * Radix * (4 ^ j) THEN j ELSE SqrtShiftOf(a, j + 1)

\* f32::sqrt, correctly rounded: sqrt(n / OneN) is sqrt(n * OneN) units
FSqrt(a) ==
    IF is_nan(a) THEN NaN
    ELSE IF FIsZero(a) THEN a
    ELSE IF a.s = 1 THEN NaN
    ELSE IF a.k = "inf" THEN a
    ELSE LET v == a.n * OneN
             j == SqrtShiftOf(v, 0)
             q == ISqrt(v \div (4 ^ j))
             up == (2 * q + 1) * (2 * q + 1) * (4 ^ j) < 4 * v
             m == IF up THEN q + 1 ELSE q
         IN  Fin(0, m * (2 ^ j))

\* f32::clamp(min, max)
FClamp(a, lo, hi) ==
    IF FLt(a, lo) THEN lo
    ELSE IF FLt(hi, a) THEN hi
    ELSE a

\* ------------------------------------------------------------------------
\* cos, sin, acos, atan2.  The library functions are evaluated in fixed
\* point (FxOne stands for 1.0) and the value is then rounded to the float
\* format; their IEEE special cases (NaN, infinities, zeros, +-1) are exact.
\* ------------------------------------------------------------------------
FxOne == 2 ^ 12
\* pi, pi / 2 and 2 * pi in fixed point
PiFx == 12868
HalfPiFx == 6434
TwoPiFx == 25736

\* a finite float as a fixed-point number, and back (rounded)
ToFx(a) ==
    LET v == (a.n * FxOne) \div OneN
    IN  IF a.s = 1 THEN 0 - v ELSE v
FromFx(v) ==
    IF v < 0 THEN Round(1, (0 - v) * OneN, FxOne) ELSE Round(0, v * OneN, FxOne)

\* cos on [0, pi / 2]: 1 - r^2/2! + r^4/4! - r^6/6! + r^8/8!
CosQuadrant(r) ==
    LET r2 == (r * r) \div FxOne
        t1 == r2 \div 2
        t2 == (t1 * r2) \div (12 * FxOne)
        t3 == (t2 * r2) \div (30 * FxOne)
        t4 == (t3 * r2) \div (56 * FxOne)
    IN  FxOne - t1 + t2 - t3 + t4

\* cos of any fixed-point angle: reduced to [0, pi], then to [0, pi / 2]
CosFx(x) ==
    LET ax == IF x < 0 THEN 0 - x ELSE x
        r0 == ax % TwoPiFx
        r1 == IF r0 > PiFx THEN TwoPiFx - r0 ELSE r0
    IN  IF r1 > HalfPiFx THEN 0 - CosQuadrant(PiFx - r1) ELSE CosQuadrant(r1)

\* the angle in [0, pi] whose cosine is t: cos falls from lo to hi
RECURSIVE AcosIn(_, _, _)
AcosIn(t, lo, hi) ==
    IF hi - lo <= 1 THEN lo
    ELSE LET mid == (lo + hi) \div 2
         IN  IF CosFx(mid) > t THEN AcosIn(t, mid, hi) ELSE AcosIn(t, lo, mid)
AcosFx(t) ==
    IF t >= FxOne THEN 0
    ELSE IF t <= 0 - FxOne THEN PiFx
    ELSE AcosIn(t, 0, PiFx)

\* f32::cos
FCos(a) ==
    IF ~is_finite(a) THEN NaN ELSE FromFx(CosFx(ToFx(a)))

\* f32::sin: sin(x) = cos(x - pi / 2), sin(+-0) = +-0
FSin(a) ==
    IF ~is_finite(a) THEN NaN
    ELSE IF FIsZero(a) THEN a
    ELSE LET r == FromFx(CosFx(ToFx(FAbs(a)) - HalfPiFx))
         IN  IF a.s = 1 THEN FNeg(r) ELSE r

\* f32::acos: NaN outside [-1, 1]
FAcos(a) ==
    IF is_nan(a) \/ FLt(One, a) \/ FLt(a, FNeg(One)) THEN NaN
    ELSE FromFx(AcosFx(ToFx(a)))

\* both magnitudes scaled by one power of two so that the larger one
\* lies in [2^10, 2^11): the direction is kept, the squares stay small
RECURSIVE ScaleUp(_)
ScaleUp(m) == IF m >= 2 ^ 10 THEN 1 ELSE 2 * ScaleUp(2 * m)
RECURSIVE ScaleDown(_)
ScaleDown(m) == IF m < 2 ^ 11 THEN 1 ELSE 2 * ScaleDown(m \div 2)

\* the angle in [0, pi] of the direction (x, |y|), x and y finite, not both 0
AngleFx(y, x) ==
    LET m == IF x.n > y.n THEN x.n ELSE y.n
        up == ScaleUp(m)
        down == ScaleDown(m)
        xs == (x.n * up) \div down
        ys == (y.n * up) \div down
        hyp == ISqrt(xs * xs + ys * ys)
        c == (xs * FxOne) \div hyp
    IN  AcosFx(IF x.s = 1 THEN 0 - c ELSE c)

\* f32::atan2(self = y, other = x): the angle has the sign of y
FAtan2(y, x) ==
    IF is_nan(y) \/ is_nan(x) THEN NaN
    ELSE LET fx ==
                 IF FIsZero(y) THEN (IF x.s = 1 THEN PiFx ELSE 0)
                 ELSE IF y.k = "inf"
                      THEN IF x.k = "inf"
                           THEN (IF x.s = 1 THEN 3 * (PiFx \div 4) ELSE PiFx \div 4)
                           ELSE HalfPiFx
                 ELSE IF x.k = "inf" THEN (IF x.s = 1 THEN PiFx ELSE 0)
                 ELSE AngleFx(y, x)
         IN  Round(y.s, fx * OneN, FxOne)

\* i32 as f32: the integer rounded to the nearest float
I32AsF32(i) == IF i < 0 THEN Round(1, (0 - i) * OneN, 1) ELSE Round(0, i * OneN, 1)

\* ------------------------------------------------------------------------
\* State: one call of one operation on a receiver
\* ------------------------------------------------------------------------
VARIABLES
    mode,   \* "debug": debug_assertions on; "release": debug_assert! elided
    self,   \* the receiver, a Vect2 [x, y] or a Vect3 [x, y, z]
    pc,     \* "ready" before the call, "done" after it
    call,   \* the operation called and its arguments
    out     \* its outcome: a returned value or a panic message

vars == <<mode, self, pc, call, out>>

Modes == {"debug", "release"}
debug_assertions == mode = "debug"

Ok(v) == [panic |-> "", val |-> v]
\* a returned bool
Bool(b) == [bool |-> b]
Panic(msg) == [panic |-> msg, val |-> [none |-> TRUE]]
Panicked(r) == r.panic # ""
Unit == [unit |-> TRUE]

\* debug_assert!(cond, msg); rest
AlwaysAssert(cond, msg, rest) == IF ~cond THEN Panic(msg) ELSE rest
DebugAssert(cond, msg, rest) ==
    IF debug_assertions /\ ~cond THEN Panic(msg) ELSE rest

\* ------------------------------------------------------------------------
\* Vect2 (src/vect2.rs)
\* ------------------------------------------------------------------------
Vect2_new(x, y) == [x |-> x, y |-> y]
Vect2_default == Vect2_new(Zero, Zero)
Vect2_is_finite(v) == is_finite(v.x) /\ is_finite(v.y)
\* #[derive(PartialEq)]
Vect2_eq(a, b) == FEq(a.x, b.x) /\ FEq(a.y, b.y)

Vect2_add(a, rhs) == Vect2_new(FAdd(a.x, rhs.x), FAdd(a.y, rhs.y))
Vect2_sub(a, rhs) == Vect2_new(FSub(a.x, rhs.x), FSub(a.y, rhs.y))
Vect2_mul(a, rhs) == Vect2_new(FMul(a.x, rhs), FMul(a.y, rhs))
Vect2_div(a, rhs) == Vect2_new(FDiv(a.x, rhs), FDiv(a.y, rhs))
Vect2_neg(a) == Vect2_new(FNeg(a.x), FNeg(a.y))
Vect2_add_assign(a, rhs) == Vect2_new(FAdd(a.x, rhs.x), FAdd(a.y, rhs.y))
Vect2_sub_assign(a, rhs) == Vect2_new(FSub(a.x, rhs.x), FSub(a.y, rhs.y))
Vect2_mul_assign(a, rhs) == Vect2_new(FMul(a.x, rhs), FMul(a.y, rhs))
Vect2_div_assign(a, rhs) == Vect2_new(FDiv(a.x, rhs), FDiv(a.y, rhs))

Vect2_debug_checked_add_x_only(a, other) ==
    LET result == Vect2_add(a, other)
    IN  DebugAssert(is_finite(result.x), "Vect2 overflow in add", Ok(result))
Vect2_debug_checked_add(a, other) ==
    LET result == Vect2_add(a, other)
    IN  DebugAssert(Vect2_is_finite(result), "Vect2 overflow in add", Ok(result))

Vect2_debug_checked_sub(a, other) ==
    LET result == Vect2_sub(a, other)
    IN  DebugAssert(Vect2_is_finite(result), "Vect2 overflow in sub", Ok(result))

Vect2_debug_checked_mul(a, scalar) ==
    LET result == Vect2_mul(a, scalar)
    IN  DebugAssert(Vect2_is_finite(result), "Vect2 overflow in mul", Ok(result))

Vect2_debug_checked_div_finite_first(a, scalar) ==
    LET result == Vect2_div(a, scalar)
    IN  DebugAssert(Vect2_is_finite(result), "Vect2 overflow in div",
        DebugAssert(~FEq(scalar, Zero), "Vect2 division by zero", Ok(result)))
Vect2_debug_checked_div(a, scalar) ==
    LET result == Vect2_div(a, scalar)
    IN  DebugAssert(~FEq(scalar, Zero), "Vect2 division by zero",
        DebugAssert(Vect2_is_finite(result), "Vect2 overflow in div", Ok(result)))

\* ------------------------------------------------------------------------
\* Vect3 (src/vect3.rs)
\* ------------------------------------------------------------------------
Vect3_new(x, y, z) == [x |-> x, y |-> y, z |-> z]
Vect3_default == Vect3_new(Zero, Zero, Zero)
Vect3_is_finite(v) == is_finite(v.x) /\ is_finite(v.y) /\ is_finite(v.z)
\* #[derive(PartialEq)]
Vect3_eq(a, b) == FEq(a.x, b.x) /\ FEq(a.y, b.y) /\ FEq(a.z, b.z)

Vect3_add(a, rhs) == Vect3_new(FAdd(a.x, rhs.x), FAdd(a.y, rhs.y), FAdd(a.z, rhs.z))
Vect3_sub(a, rhs) == Vect3_new(FSub(a.x, rhs.x), FSub(a.y, rhs.y), FSub(a.z, rhs.z))
Vect3_mul(a, rhs) == Vect3_new(FMul(a.x, rhs), FMul(a.y, rhs), FMul(a.z, rhs))
Vect3_div(a, rhs) == Vect3_new(FDiv(a.x, rhs), FDiv(a.y, rhs), FDiv(a.z, rhs))
Vect3_neg(a) == Vect3_new(FNeg(a.x), FNeg(a.y), FNeg(a.z))
Vect3_add_assign(a, rhs) ==
    Vect3_new(FAdd(a.x, rhs.x), FAdd(a.y, rhs.y), FAdd(a.z, rhs.z))
Vect3_sub_assign(a, rhs) ==
    Vect3_new(FSub(a.x, rhs.x), FSub(a.y, rhs.y), FSub(a.z, rhs.z))
Vect3_mul_assign(a, rhs) == Vect3_new(FMul(a.x, rhs), FMul(a.y, rhs), FMul(a.z, rhs))
Vect3_div_assign(a, rhs) == Vect3_new(FDiv(a.x, rhs), FDiv(a.y, rhs), FDiv(a.z, rhs))

Vect3_debug_checked_add(a, other) ==
    LET result == Vect3_add(a, other)
    IN  DebugAssert(Vect3_is_finite(result), "Vect3 overflow in add", Ok(result))

Vect3_debug_checked_sub(a, other) ==
    LET result == Vect3_sub(a, other)
    IN  DebugAssert(Vect3_is_finite(result), "Vect3 overflow in sub", Ok(result))

Vect3_debug_checked_mul(a, scalar) ==
    LET result == Vect3_mul(a, scalar)
    IN  DebugAssert(Vect3_is_finite(result), "Vect3 overflow in mul", Ok(result))

Vect3_debug_checked_div(a, scalar) ==
    LET result == Vect3_div(a, scalar)
    IN  DebugAssert(~FEq(scalar, Zero), "Vect3 division by zero",
        DebugAssert(Vect3_is_finite(result), "Vect3 overflow in div", Ok(result)))

\* ------------------------------------------------------------------------
\* Geometric queries of Vect2.  Each returns Ok(value) or the panic of the
\* first debug_assert! that fails, its own or that of a method it calls.
\* ------------------------------------------------------------------------
\* r?; F(value): the panic of r passes through the caller
Then(r, F(_)) == IF Panicked(r) THEN r ELSE F(r.val)

Vect2_length_squared(v) ==
    LET result == FAdd(FMul(v.x, v.x), FMul(v.y, v.y))
    IN  DebugAssert(is_finite(result),
                    "Vect2::length_squared produced NaN or infinity", Ok(result))

Vect2_length(v) ==
    LET result == FSqrt(FAdd(FMul(v.x, v.x), FMul(v.y, v.y)))
    IN  DebugAssert(is_finite(result),
                    "Vect2::length produced NaN or infinity", Ok(result))

Vect2_normalize_always_divides(v) ==
    LET sq == FAdd(FMul(v.x, v.x), FMul(v.y, v.y))
        len == FSqrt(sq)
        result == Vect2_div(v, len)
    IN  DebugAssert(is_finite(sq), "Vect2::normalize produced non-finite result",
        DebugAssert(Vect2_is_finite(result),
                    "Vect2::normalize produced non-finite result", Ok(result)))
Vect2_normalize(v) ==
    LET sq == FAdd(FMul(v.x, v.x), FMul(v.y, v.y))
        len == FSqrt(sq)
        result == Vect2_div(v, len)
    IN  DebugAssert(is_finite(sq), "Vect2::normalize produced non-finite result",
        IF FEq(len, Zero) THEN Ok(v)
        ELSE DebugAssert(Vect2_is_finite(result),
                         "Vect2::normalize produced non-finite result", Ok(result)))

Vect2_dot(v, other) ==
    LET result == FAdd(FMul(v.x, other.x), FMul(v.y, other.y))
    IN  DebugAssert(is_finite(result), "Vect2::dot produced NaN or infinity", Ok(result))

Vect2_cross(v, other) ==
    LET result == FSub(FMul(v.x, other.y), FMul(v.y, other.x))
    IN  DebugAssert(is_finite(result), "Vect2::cross produced NaN or infinity", Ok(result))

Vect2_rotate(v, angle) ==
    LET cos == FCos(angle)
        sin == FSin(angle)
        x == FSub(FMul(v.x, cos), FMul(v.y, sin))
        y == FAdd(FMul(v.x, sin), FMul(v.y, cos))
    IN  DebugAssert(is_finite(x) /\ is_finite(y),
                    "Vect2::rotate produced non-finite result", Ok(Vect2_new(x, y)))

Vect2_distance(v, other) ==
    Then(Vect2_length(Vect2_sub(v, other)), LAMBDA result :
        DebugAssert(is_finite(result),
                    "Vect2::distance produced NaN or infinity", Ok(result)))

Vect2_distance_squared(v, other) ==
    LET dx == FSub(v.x, other.x)
        dy == FSub(v.y, other.y)
        result == FAdd(FMul(dx, dx), FMul(dy, dy))
    IN  DebugAssert(is_finite(result),
                    "Vect2::distance_squared produced NaN or infinity", Ok(result))

Vect2_angle(v, other) ==
    Then(Vect2_dot(v, other), LAMBDA dot :
    Then(Vect2_cross(v, other), LAMBDA cross :
        LET result == FAtan2(cross, dot)
        IN  DebugAssert(is_finite(result),
                        "Vect2::angle produced NaN or infinity", Ok(result))))

\* lerp taken from the other end: other + (self - other) * t
Vect2_lerp_from_other(v, other, t) ==
    LET x == FAdd(other.x, FMul(FSub(v.x, other.x), t))
        y == FAdd(other.y, FMul(FSub(v.y, other.y), t))
    IN  DebugAssert(is_finite(x) /\ is_finite(y),
                    "Vect2::lerp produced non-finite result", Ok(Vect2_new(x, y)))

Vect2_lerp(v, other, t) ==
    LET x == FAdd(v.x, FMul(FSub(other.x, v.x), t))
        y == FAdd(v.y, FMul(FSub(other.y, v.y), t))
    IN  DebugAssert(is_finite(x) /\ is_finite(y),
                    "Vect2::lerp produced non-finite result", Ok(Vect2_new(x, y)))

\* reflect dividing the normal by its length itself, with no test for zero
Vect2_reflect_divides_by_length(v, normal) ==
    Then(Vect2_length(normal), LAMBDA len :
    LET n == Vect2_div(normal, len)
    IN  Then(Vect2_dot(v, n), LAMBDA d :
        LET result == Vect2_sub(v, Vect2_mul(Vect2_mul(n, Two), d))
        IN  DebugAssert(Vect2_is_finite(result),
                        "Vect2::reflect produced non-finite result", Ok(result))))

\* *self - normal * 2.0 * self.dot(&normal), the products taken left to right
Vect2_reflect(v, normal) ==
    Then(Vect2_normalize(normal), LAMBDA n :
    Then(Vect2_dot(v, n), LAMBDA d :
        LET result == Vect2_sub(v, Vect2_mul(Vect2_mul(n, Two), d))
        IN  DebugAssert(Vect2_is_finite(result),
                        "Vect2::reflect produced non-finite result", Ok(result))))

\* project without the zero-length test: the quotient is always computed
Vect2_project_always_divides(v, other) ==
    Then(Vect2_length_squared(other), LAMBDA len_sq :
        Then(Vect2_dot(v, other), LAMBDA d :
            LET scalar == FDiv(d, len_sq)
                result == Vect2_mul(other, scalar)
            IN  DebugAssert(Vect2_is_finite(result),
                            "Vect2::project produced non-finite result", Ok(result))))

Vect2_project(v, other) ==
    Then(Vect2_length_squared(other), LAMBDA len_sq :
        IF FEq(len_sq, Zero) THEN Ok(Vect2_default)
        ELSE Then(Vect2_dot(v, other), LAMBDA d :
            LET scalar == FDiv(d, len_sq)
                result == Vect2_mul(other, scalar)
            IN  DebugAssert(Vect2_is_finite(result),
                            "Vect2::project produced non-finite result", Ok(result))))

\* the tail shared by both types once denom is known to be non-zero
AngleFromCos(cos, msg) ==
    IF FLt(FAbs(FSub(cos, One)), EPSILON) THEN Ok(Zero)
    ELSE LET result == FAcos(cos)
         IN  DebugAssert(is_finite(result), msg, Ok(result))

Vect2_angle_between(v, other) ==
    IF Vect2_eq(v, other) THEN Ok(Zero)
    ELSE Then(Vect2_length(v), LAMBDA l1 :
         Then(Vect2_length(other), LAMBDA l2 :
            LET denom == FMul(l1, l2)
            IN  IF FEq(denom, Zero) THEN Ok(Zero)
                ELSE Then(Vect2_dot(v, other), LAMBDA d :
                    AngleFromCos(FClamp(FDiv(d, denom), FNeg(One), One),
                                 "Vect2::angle_between produced NaN or infinity"))))

Vect2_is_zero(v) == Ok(Bool(FEq(v.x, Zero) /\ FEq(v.y, Zero)))

Vect2_is_normalized(v) ==
    Then(Vect2_length_squared(v), LAMBDA sq :
        Ok(Bool(FLt(FAbs(FSub(sq, One)), EPSILON))))

Vect2_is_parallel(v, other) ==
    Then(Vect2_cross(v, other), LAMBDA c : Ok(Bool(FLt(FAbs(c), EPSILON))))

\* ------------------------------------------------------------------------
\* Geometric queries of Vect3
\* ------------------------------------------------------------------------
Vect3_length_squared(v) ==
    LET result == FAdd(FAdd(FMul(v.x, v.x), FMul(v.y, v.y)), FMul(v.z, v.z))
    IN  DebugAssert(is_finite(result),
                    "Vect3::length_squared produced NaN or infinity", Ok(result))

Vect3_length(v) ==
    Then(Vect3_length_squared(v), LAMBDA sq :
        LET result == FSqrt(sq)
        IN  DebugAssert(is_finite(result),
                        "Vect3::length produced NaN or infinity", Ok(result)))

Vect3_normalize(v) ==
    Then(Vect3_length(v), LAMBDA len :
        DebugAssert(FGe(len, Zero), "Vect3::normalize: length negative (impossible)",
            IF FEq(len, Zero) THEN Ok(v)
            ELSE LET result == Vect3_div(v, len)
                 IN  DebugAssert(Vect3_is_finite(result),
                                 "Vect3::normalize produced non-finite result",
                                 Ok(result))))

Vect3_dot(v, other) ==
    LET result ==
            FAdd(FAdd(FMul(v.x, other.x), FMul(v.y, other.y)), FMul(v.z, other.z))
    IN  DebugAssert(is_finite(result), "Vect3::dot produced NaN or infinity", Ok(result))

Vect3_cross(v, other) ==
    LET x == FSub(FMul(v.y, other.z), FMul(v.z, other.y))
        y == FSub(FMul(v.z, other.x), FMul(v.x, other.z))
        z == FSub(FMul(v.x, other.y), FMul(v.y, other.x))
    IN  DebugAssert(is_finite(x) /\ is_finite(y) /\ is_finite(z),
                    "Vect3::cross produced non-finite result", Ok(Vect3_new(x, y, z)))

Vect3_distance(v, other) ==
    Then(Vect3_length(Vect3_sub(v, other)), LAMBDA result :
        DebugAssert(is_finite(result),
                    "Vect3::distance produced NaN or infinity", Ok(result)))

Vect3_distance_squared(v, other) ==
    LET dx == FSub(v.x, other.x)
        dy == FSub(v.y, other.y)
        dz == FSub(v.z, other.z)
        result == FAdd(FAdd(FMul(dx, dx), FMul(dy, dy)), FMul(dz, dz))
    IN  DebugAssert(is_finite(result),
                    "Vect3::distance_squared produced NaN or infinity", Ok(result))

Vect3_angle_between(v, other) ==
    IF Vect3_eq(v, other) THEN Ok(Zero)
    ELSE Then(Vect3_length(v), LAMBDA l1 :
         Then(Vect3_length(other), LAMBDA l2 :
            LET denom == FMul(l1, l2)
            IN  IF FEq(denom, Zero) THEN Ok(Zero)
                ELSE Then(Vect3_dot(v, other), LAMBDA d :
                    AngleFromCos(FClamp(FDiv(d, denom), FNeg(One), One),
                                 "Vect3::angle_between produced NaN or infinity"))))

Vect3_lerp(v, other, t) ==
    LET x == FAdd(v.x, FMul(FSub(other.x, v.x), t))
        y == FAdd(v.y, FMul(FSub(other.y, v.y), t))
        z == FAdd(v.z, FMul(FSub(other.z, v.z), t))
    IN  DebugAssert(is_finite(x) /\ is_finite(y) /\ is_finite(z),
                    "Vect3::lerp produced non-finite result", Ok(Vect3_new(x, y, z)))

\* *self - n * (2.0 * dot)
Vect3_reflect(v, normal) ==
    Then(Vect3_normalize(normal), LAMBDA n :
    Then(Vect3_dot(v, n), LAMBDA dot :
        LET result == Vect3_sub(v, Vect3_mul(n, FMul(Two, dot)))
        IN  DebugAssert(Vect3_is_finite(result),
                        "Vect3::reflect produced non-finite result", Ok(result))))

Vect3_project(v, other) ==
    Then(Vect3_length_squared(other), LAMBDA len_sq :
        IF FEq(len_sq, Zero) THEN Ok(Vect3_default)
        ELSE Then(Vect3_dot(v, other), LAMBDA d :
            LET scalar == FDiv(d, len_sq)
                result == Vect3_mul(other, scalar)
            IN  DebugAssert(Vect3_is_finite(result),
                            "Vect3::project produced non-finite result", Ok(result))))

Vect3_is_zero(v) ==
    Ok(Bool(FEq(v.x, Zero) /\ FEq(v.y, Zero) /\ FEq(v.z, Zero)))

Vect3_is_normalized(v) ==
    Then(Vect3_length_squared(v), LAMBDA sq :
        Ok(Bool(FLt(FAbs(FSub(sq, One)), EPSILON))))

Vect3_is_parallel(v, other) ==
    Then(Vect3_cross(v, other), LAMBDA c :
    Then(Vect3_length_squared(c), LAMBDA sq :
        Ok(Bool(FLt(FAbs(sq), EPSILON)))))

\* ------------------------------------------------------------------------
\* Indexing (Index<usize>, IndexMut<usize>)
\* ------------------------------------------------------------------------
Vect2_index(v, i) ==
    CASE i = 0 -> Ok(v.x)
      [] i = 1 -> Ok(v.y)
      [] OTHER -> Panic("Index out of bounds for Vect2")

\* v[i] = val through the &mut f32 that index_mut returns
Vect2_index_mut_wraps(v, i, val) ==
    CASE i = 0 -> Ok([v EXCEPT !.x = val])
      [] OTHER -> Ok([v EXCEPT !.y = val])
Vect2_index_mut(v, i, val) ==
    CASE i = 0 -> Ok([v EXCEPT !.x = val])
      [] i = 1 -> Ok([v EXCEPT !.y = val])
      [] OTHER -> Panic("Index out of bounds for Vect2")

Vect3_index(v, i) ==
    CASE i = 0 -> Ok(v.x)
      [] i = 1 -> Ok(v.y)
      [] i = 2 -> Ok(v.z)
      [] OTHER -> Panic("Index out of bounds for Vect3")

Vect3_index_mut(v, i, val) ==
    CASE i = 0 -> Ok([v EXCEPT !.x = val])
      [] i = 1 -> Ok([v EXCEPT !.y = val])
      [] i = 2 -> Ok([v EXCEPT !.z = val])
      [] OTHER -> Panic("Index out of bounds for Vect3")

\* ------------------------------------------------------------------------
\* Fallible conversion from slices (TryFrom<&[f32]>, TryFrom<&[i32]>)
\* A Result is [ok |-> TRUE, v |-> vector] or [ok |-> FALSE, err |-> message]
\* ------------------------------------------------------------------------
ResOk(v) == [ok |-> TRUE, v |-> v]
ResErr(e) == [ok |-> FALSE, err |-> e]

Vect2_try_from_f32_at_least(slice) ==
    IF Len(slice) >= 2
    THEN ResOk(Vect2_new(slice[1], slice[2]))
    ELSE ResErr("Expected slice of length 2 for Vect2<f32>")
Vect2_try_from_f32(slice) ==
    IF Len(slice) = 2
    THEN ResOk(Vect2_new(slice[1], slice[2]))
    ELSE ResErr("Expected slice of length 2 for Vect2<f32>")

\* the i32 impl with the message of the f32 impl
Vect2_try_from_i32_f32_message(slice) ==
    IF Len(slice) = 2
    THEN ResOk(Vect2_new(I32AsF32(slice[1]), I32AsF32(slice[2])))
    ELSE ResErr("Expected slice of length 2 for Vect2<f32>")
Vect2_try_from_i32(slice) ==
    IF Len(slice) = 2
    THEN ResOk(Vect2_new(I32AsF32(slice[1]), I32AsF32(slice[2])))
    ELSE ResErr("Expected slice of length 2 for Vect2<i32>")

Vect3_try_from_f32(slice) ==
    IF Len(slice) = 3
    THEN ResOk(Vect3_new(slice[1], slice[2], slice[3]))
    ELSE ResErr("Expected slice of length 3 for Vect3<f32>")

Vect3_try_from_i32(slice) ==
    IF Len(slice) = 3
    THEN ResOk(Vect3_new(I32AsF32(slice[1]), I32AsF32(slice[2]), I32AsF32(slice[3])))
    ELSE ResErr("Expected slice of length 3 for Vect3<i32>")

\* ------------------------------------------------------------------------
\* Calls: the operation of the receiver's type (static dispatch on Self)
\* ------------------------------------------------------------------------
Dim(v) == IF "z" \in DOMAIN v THEN 3 ELSE 2

debug_checked_add(a, other) ==
    IF Dim(a) = 2 THEN Vect2_debug_checked_add(a, other)
    ELSE Vect3_debug_checked_add(a, other)

\* the operator written through the guarded operation
add_through_checked(a, rhs) == debug_checked_add(a, rhs)
add(a, rhs) == Ok(IF Dim(a) = 2 THEN Vect2_add(a, rhs) ELSE Vect3_add(a, rhs))
sub(a, rhs) == Ok(IF Dim(a) = 2 THEN Vect2_sub(a, rhs) ELSE Vect3_sub(a, rhs))
mul(a, rhs) == Ok(IF Dim(a) = 2 THEN Vect2_mul(a, rhs) ELSE Vect3_mul(a, rhs))
div(a, rhs) == Ok(IF Dim(a) = 2 THEN Vect2_div(a, rhs) ELSE Vect3_div(a, rhs))

normalize(v) == IF Dim(v) = 2 THEN Vect2_normalize(v) ELSE Vect3_normalize(v)
is_zero(v) == IF Dim(v) = 2 THEN Vect2_is_zero(v) ELSE Vect3_is_zero(v)
dot(v, other) ==
    IF Dim(v) = 2 THEN Vect2_dot(v, other) ELSE Vect3_dot(v, other)
angle_between(v, other) ==
    IF Dim(v) = 2 THEN Vect2_angle_between(v, other) ELSE Vect3_angle_between(v, other)

index(v, i) == IF Dim(v) = 2 THEN Vect2_index(v, i) ELSE Vect3_index(v, i)
index_mut(v, i, val) ==
    IF Dim(v) = 2 THEN Vect2_index_mut(v, i, val) ELSE Vect3_index_mut(v, i, val)

\* ------------------------------------------------------------------------
\* Inputs
\* ------------------------------------------------------------------------
\* components of the Vect2 operands
F32s2 == {NaN, Inf(0), Zero, NegZero, Tiny, One, MAX, FNeg(MAX)}
\* components of the Vect3 operands of the arithmetic operations
F32s3 == {NaN, Zero, MAX, FNeg(MAX)}
\* scalars: multipliers and divisors
Scalars == {NaN, Inf(0), Zero, NegZero, Tiny, One, Two, FNeg(One)}
\* elements of the slices handed to try_from
SliceF32s == {NaN, One, FNeg(MAX)}
\* the last one is the first integer that is not a float: as f32 rounds it
SliceI32s == {0 - 1, 3, Radix + 1}

\* components of the Vect3 operands of the geometric queries: x of every
\* kind, y and z zero, unit or huge
F32s3x == {NaN, Zero, Tiny, One, MAX, FNeg(MAX)}
F32s3yz == {Zero, One, MAX}
\* interpolation parameters
Half == Fin(0, OneN \div 2)
Ts == {Zero, Half, One, Two}

Vects2 == {Vect2_new(x, y) : x \in F32s2, y \in F32s2}
Vects3 == {Vect3_new(x, y, z) : x \in F32s3, y \in F32s3, z \in F32s3}
Vects3G == {Vect3_new(x, y, z) : x \in F32s3x, y \in F32s3yz, z \in F32s3yz}
\* the operands of the receiver's type
Others(v) == IF Dim(v) = 2 THEN Vects2 ELSE Vects3
OthersG(v) == IF Dim(v) = 2 THEN Vects2 ELSE Vects3G

SlicesOf(S) == UNION {[1..n -> S] : n \in 0..MaxLen}

\* an argument the operation does not take
NoArg == [none |-> TRUE]
NoIndex == 0 - 1
NoCall ==
    [op |-> "none", recv |-> NoArg, other |-> NoArg, k |-> NoArg,
     i |-> NoIndex, slice |-> <<>>, ints |-> <<>>]
\* recv is the receiver as it was when the call was made
Call(op, other, k, i) ==
    [op |-> op, recv |-> self, other |-> other, k |-> k, i |-> i,
     slice |-> <<>>, ints |-> <<>>]
\* the slice handed to an associated function of the type: of f32 or of i32
Slice(slice, ints) == [NoCall EXCEPT !.slice = slice, !.ints = ints]
\* the associated function called on that slice
CallSlice(op) == [call EXCEPT !.op = op]

Init ==
    /\ mode \in Modes
    /\ self \in Vects2 \cup Vects3
    /\ pc = "ready"
    /\ call = NoCall
    /\ out = Ok(Unit)

\* a call that leaves the receiver alone
Returns(c, r) ==
    /\ pc = "ready"
    /\ pc' = "done"
    /\ call' = c
    /\ out' = r
    /\ UNCHANGED <<mode, self>>

\* a call that writes the receiver (&mut self), unless it panics first
Mutates(c, r) ==
    /\ pc = "ready"
    /\ pc' = "done"
    /\ call' = c
    /\ out' = IF Panicked(r) THEN r ELSE Ok(Unit)
    /\ self' = IF Panicked(r) THEN self ELSE r.val
    /\ UNCHANGED mode

\* ------------------------------------------------------------------------
\* Conversions
\* ------------------------------------------------------------------------
InitConv ==
    /\ mode \in Modes
    /\ self = Vect2_default
    /\ pc = "ready"
    /\ \/ \E slice \in SlicesOf(SliceF32s) : call = Slice(slice, <<>>)
       \/ \E slice \in SlicesOf(SliceI32s) : call = Slice(<<>>, slice)
    /\ out = Ok(Unit)

\* the element type of the slice selects the impl: &[f32] or &[i32]
TryFromF32_Vect2 ==
    /\ call.ints = <<>>
    /\ Returns(CallSlice("Vect2::try_from(&[f32])"),
               Ok(Vect2_try_from_f32(call.slice)))

TryFromI32_Vect2 ==
    /\ call.slice = <<>>
    /\ Returns(CallSlice("Vect2::try_from(&[i32])"),
               Ok(Vect2_try_from_i32(call.ints)))

TryFromF32_Vect3 ==
    /\ call.ints = <<>>
    /\ Returns(CallSlice("Vect3::try_from(&[f32])"),
               Ok(Vect3_try_from_f32(call.slice)))

TryFromI32_Vect3 ==
    /\ call.slice = <<>>
    /\ Returns(CallSlice("Vect3::try_from(&[i32])"),
               Ok(Vect3_try_from_i32(call.ints)))

NextConv ==
    \/ TryFromF32_Vect2
    \/ TryFromI32_Vect2
    \/ TryFromF32_Vect3
    \/ TryFromI32_Vect3

SpecConv == InitConv /\ [][NextConv]_vars

\* ------------------------------------------------------------------------
\* Indexing
\* ------------------------------------------------------------------------
Index ==
    \E i \in 0..MaxIndex :
        Returns(Call("index", NoArg, NoArg, i), index(self, i))

IndexMut ==
    \E i \in 0..MaxIndex, val \in {Two, NaN} :
        Mutates(Call("index_mut", NoArg, val, i), index_mut(self, i, val))

NextIndex ==
    \/ Index
    \/ IndexMut

SpecIndex == Init /\ [][NextIndex]_vars

\* ------------------------------------------------------------------------
\* Arithmetic: the operators and the checked operations
\* ------------------------------------------------------------------------
Add == \E other \in Others(self) :
    Returns(Call("add", other, NoArg, NoIndex), add(self, other))
Sub == \E other \in Others(self) :
    Returns(Call("sub", other, NoArg, NoIndex), sub(self, other))
Mul == \E k \in Scalars :
    Returns(Call("mul", NoArg, k, NoIndex), mul(self, k))
Div == \E k \in Scalars :
    Returns(Call("div", NoArg, k, NoIndex), div(self, k))
Neg ==
    Returns(Call("neg", NoArg, NoArg, NoIndex),
        Ok(IF Dim(self) = 2 THEN Vect2_neg(self) ELSE Vect3_neg(self)))
AddAssign == \E other \in Others(self) :
    Mutates(Call("add_assign", other, NoArg, NoIndex),
        Ok(IF Dim(self) = 2 THEN Vect2_add_assign(self, other)
        ELSE Vect3_add_assign(self, other)))
SubAssign == \E other \in Others(self) :
    Mutates(Call("sub_assign", other, NoArg, NoIndex),
        Ok(IF Dim(self) = 2 THEN Vect2_sub_assign(self, other)
        ELSE Vect3_sub_assign(self, other)))
MulAssign == \E k \in Scalars :
    Mutates(Call("mul_assign", NoArg, k, NoIndex),
        Ok(IF Dim(self) = 2 THEN Vect2_mul_assign(self, k)
        ELSE Vect3_mul_assign(self, k)))
DivAssign == \E k \in Scalars :
    Mutates(Call("div_assign", NoArg, k, NoIndex),
        Ok(IF Dim(self) = 2 THEN Vect2_div_assign(self, k)
        ELSE Vect3_div_assign(self, k)))
DebugCheckedAdd == \E other \in Others(self) :
    Returns(Call("debug_checked_add", other, NoArg, NoIndex),
            debug_checked_add(self, other))
DebugCheckedSub == \E other \in Others(self) :
    Returns(Call("debug_checked_sub", other, NoArg, NoIndex),
        IF Dim(self) = 2 THEN Vect2_debug_checked_sub(self, other)
        ELSE Vect3_debug_checked_sub(self, other))
DebugCheckedMul == \E k \in Scalars :
    Returns(Call("debug_checked_mul", NoArg, k, NoIndex),
        IF Dim(self) = 2 THEN Vect2_debug_checked_mul(self, k)
        ELSE Vect3_debug_checked_mul(self, k))
DebugCheckedDiv == \E k \in Scalars :
    Returns(Call("debug_checked_div", NoArg, k, NoIndex),
        IF Dim(self) = 2 THEN Vect2_debug_checked_div(self, k)
        ELSE Vect3_debug_checked_div(self, k))

NextArith ==
    \/ Add
    \/ Sub
    \/ Mul
    \/ Div
    \/ Neg
    \/ AddAssign
    \/ SubAssign
    \/ MulAssign
    \/ DivAssign
    \/ DebugCheckedAdd
    \/ DebugCheckedSub
    \/ DebugCheckedMul
    \/ DebugCheckedDiv

SpecArith == Init /\ [][NextArith]_vars

\* ------------------------------------------------------------------------
\* Geometric queries
\* ------------------------------------------------------------------------
InitGeom ==
    /\ mode \in Modes
    /\ self \in Vects2 \cup Vects3G
    /\ pc = "ready"
    /\ call = NoCall
    /\ out = Ok(Unit)

LengthSquared == Returns(Call("length_squared", NoArg, NoArg, NoIndex),
        IF Dim(self) = 2 THEN Vect2_length_squared(self)
        ELSE Vect3_length_squared(self))
Length == Returns(Call("length", NoArg, NoArg, NoIndex),
        IF Dim(self) = 2 THEN Vect2_length(self)
        ELSE Vect3_length(self))
Normalize == Returns(Call("normalize", NoArg, NoArg, NoIndex), normalize(self))
IsZero == Returns(Call("is_zero", NoArg, NoArg, NoIndex), is_zero(self))
IsNormalized == Returns(Call("is_normalized", NoArg, NoArg, NoIndex),
        IF Dim(self) = 2 THEN Vect2_is_normalized(self)
        ELSE Vect3_is_normalized(self))
Dot == \E other \in OthersG(self) :
    Returns(Call("dot", other, NoArg, NoIndex), dot(self, other))
Cross == \E other \in OthersG(self) :
    Returns(Call("cross", other, NoArg, NoIndex),
        IF Dim(self) = 2 THEN Vect2_cross(self, other)
        ELSE Vect3_cross(self, other))
Distance == \E other \in OthersG(self) :
    Returns(Call("distance", other, NoArg, NoIndex),
        IF Dim(self) = 2 THEN Vect2_distance(self, other)
        ELSE Vect3_distance(self, other))
DistanceSquared == \E other \in OthersG(self) :
    Returns(Call("distance_squared", other, NoArg, NoIndex),
        IF Dim(self) = 2 THEN Vect2_distance_squared(self, other)
        ELSE Vect3_distance_squared(self, other))
AngleBetween == \E other \in OthersG(self) :
    Returns(Call("angle_between", other, NoArg, NoIndex), angle_between(self, other))
Reflect == \E other \in OthersG(self) :
    Returns(Call("reflect", other, NoArg, NoIndex),
        IF Dim(self) = 2 THEN Vect2_reflect(self, other)
        ELSE Vect3_reflect(self, other))
Project == \E other \in OthersG(self) :
    Returns(Call("project", other, NoArg, NoIndex),
        IF Dim(self) = 2 THEN Vect2_project(self, other)
        ELSE Vect3_project(self, other))
IsParallel == \E other \in OthersG(self) :
    Returns(Call("is_parallel", other, NoArg, NoIndex),
        IF Dim(self) = 2 THEN Vect2_is_parallel(self, other)
        ELSE Vect3_is_parallel(self, other))
Lerp == \E other \in OthersG(self), t \in Ts :
    Returns(Call("lerp", other, t, NoIndex),
        IF Dim(self) = 2 THEN Vect2_lerp(self, other, t)
        ELSE Vect3_lerp(self, other, t))
\* angle and rotate are methods of Vect2 alone
Angle == \E other \in Vects2 :
    /\ Dim(self) = 2
    /\ Returns(Call("angle", other, NoArg, NoIndex), Vect2_angle(self, other))
Rotate == \E angle \in Scalars :
    /\ Dim(self) = 2
    /\ Returns(Call("rotate", NoArg, angle, NoIndex), Vect2_rotate(self, angle))

NextGeom ==
    \/ LengthSquared
    \/ Length
    \/ Normalize
    \/ IsZero
    \/ IsNormalized
    \/ Dot
    \/ Cross
    \/ Distance
    \/ DistanceSquared
    \/ AngleBetween
    \/ Reflect
    \/ Project
    \/ IsParallel
    \/ Lerp
    \/ Angle
    \/ Rotate

SpecGeom == InitGeom /\ [][NextGeom]_vars

\* ------------------------------------------------------------------------
\* Hashing
\* ------------------------------------------------------------------------
\* weight of the sign bit: above every exponent field, the all-ones one
\* of the infinities and the NaNs included
SignBit == (MaxShift + 3) * (Radix \div 2)

\* f32::to_bits: the sign bit, the exponent field (0 for the subnormals,
\* j + 1 for m * 2^j with the hidden bit set in m, all ones for infinity
\* and NaN) and the fraction (m without its hidden bit; the quiet bit of
\* the NaN)
to_bits(a) ==
    LET half == Radix \div 2
        j == ShiftOf(a.n, 1, 0)
        magnitude ==
            CASE a.k = "fin" -> j * half + (a.n \div (2 ^ j))
              [] a.k = "inf" -> (MaxShift + 2) * half
              [] a.k = "nan" -> (MaxShift + 2) * half + (half \div 2)
    IN  a.s * SignBit + magnitude

\* Hasher::write_u32: the hasher is what has been written to it, in order
write_u32(state, word) == Append(state, word)

\* the y component left out: x is written twice
Vect2_hash_x_twice(v, state) ==
    write_u32(write_u32(state, to_bits(v.x)), to_bits(v.x))

Vect2_hash(v, state) ==
    write_u32(write_u32(state, to_bits(v.x)), to_bits(v.y))

Vect3_hash(v, state) ==
    write_u32(write_u32(write_u32(state, to_bits(v.x)), to_bits(v.y)), to_bits(v.z))

\* two vectors of one type compared with == and hashed, each into a new hasher
Hash == \E other \in Others(self) :
    Returns(Call("hash", other, NoArg, NoIndex),
        Ok(IF Dim(self) = 2
           THEN [eq |-> Vect2_eq(self, other),
                 h1 |-> Vect2_hash(self, <<>>), h2 |-> Vect2_hash(other, <<>>)]
           ELSE [eq |-> Vect3_eq(self, other),
                 h1 |-> Vect3_hash(self, <<>>), h2 |-> Vect3_hash(other, <<>>)]))

NextHash ==
    \/ Hash

SpecHash == Init /\ [][NextHash]_vars

\* ========================================================================
\* Properties
\* ========================================================================
Done(op) == pc = "done" /\ call.op = op
\* the call returned, and returned v
Returned(v) == ~Panicked(out) /\ out.val = v
Component(v, i) == CASE i = 0 -> v.x [] i = 1 -> v.y [] i = 2 -> v.z
Components(v) == IF Dim(v) = 2 THEN <<v.x, v.y>> ELSE <<v.x, v.y, v.z>>
AllFinite(v) == \A c \in DOMAIN v : is_finite(v[c])
TypeName(v) == IF Dim(v) = 2 THEN "Vect2" ELSE "Vect3"
AllMAX(v) == \A c \in DOMAIN v : v[c] = MAX

\* ------------------------------------------------------------------------
\* C1: try_from on an f32 or i32 slice is Ok exactly when the slice length
\* equals the dimension (2 for Vect2, 3 for Vect3), the components are then
\* the elements in order (an i32 element converted with `as f32`), and every
\* other length, 0 and the longer ones included, is an Err, never a panic.
\* ------------------------------------------------------------------------
TryFromCase(op, dim, slice, conv(_)) ==
    Done(op) =>
        LET r == out.val
        IN  /\ ~Panicked(out)
            /\ r.ok <=> Len(slice) = dim
            /\ r.ok => Components(r.v) = [i \in 1..dim |-> conv(slice[i])]
            /\ r.ok => Dim(r.v) = dim

SameF32(x) == x

C1_TryFromLength ==
    /\ TryFromCase("Vect2::try_from(&[f32])", 2, call.slice, SameF32)
    /\ TryFromCase("Vect2::try_from(&[i32])", 2, call.ints, I32AsF32)
    /\ TryFromCase("Vect3::try_from(&[f32])", 3, call.slice, SameF32)
    /\ TryFromCase("Vect3::try_from(&[i32])", 3, call.ints, I32AsF32)

\* an i32 slice of the right length converted, one element rounded by as f32
C1_Witness ==
    /\ Done("Vect3::try_from(&[i32])")
    /\ out.val.ok
    /\ call.ints[1] = Radix + 1
    /\ out.val.v.x = Fin(0, Radix * OneN)

\* ------------------------------------------------------------------------
\* C2: v[0], v[1] (and v[2] of a Vect3) are x, y (and z); every index at or
\* beyond the dimension panics, with debug assertions on or off; and
\* IndexMut accepts and rejects the same indices as Index, writing the
\* component it accepts.
\* ------------------------------------------------------------------------
C2_IndexBounds ==
    /\ Done("index") =>
        IF call.i < Dim(call.recv)
        THEN out = Ok(Component(call.recv, call.i))
        ELSE Panicked(out)
    /\ Done("index_mut") =>
        /\ Panicked(out) <=> call.i >= Dim(call.recv)
        /\ Panicked(out) <=> Panicked(index(call.recv, call.i))
        /\ Panicked(out) => self = call.recv
        /\ ~Panicked(out) =>
            /\ Component(self, call.i) = call.k
            /\ \A j \in 0..(Dim(self) - 1) :
                j # call.i => Component(self, j) = Component(call.recv, j)

\* index 2 of a Vect2 written in a release build: the call panicked
C2_Witness ==
    /\ Done("index_mut")
    /\ mode = "release"
    /\ Dim(call.recv) = 2
    /\ call.i = 2
    /\ Panicked(out)

\* ------------------------------------------------------------------------
\* C3: in a debug build debug_checked_add, _sub and _mul panic with
\* "<Type> overflow in <op>" whenever a component of the result is infinite
\* or NaN, and otherwise return the value of the operator +, -, * scalar;
\* the checked sum of two vectors of f32::MAX panics.
\* ------------------------------------------------------------------------
CheckedCase(op, short, raw) ==
    (Done(op) /\ mode = "debug") =>
        IF AllFinite(raw.val)
        THEN out = raw
        ELSE out.panic = TypeName(call.recv) \o " overflow in " \o short

C3_CheckedDebug ==
    /\ CheckedCase("debug_checked_add", "add", add(call.recv, call.other))
    /\ CheckedCase("debug_checked_sub", "sub", sub(call.recv, call.other))
    /\ CheckedCase("debug_checked_mul", "mul", mul(call.recv, call.k))
    /\ (Done("debug_checked_add") /\ mode = "debug"
            /\ AllMAX(call.recv) /\ AllMAX(call.other)) => Panicked(out)

\* the checked sum of (MAX, MAX) and (MAX, MAX) panicked in a debug build
C3_Witness ==
    /\ Done("debug_checked_add")
    /\ mode = "debug"
    /\ call.recv = Vect2_new(MAX, MAX)
    /\ call.other = Vect2_new(MAX, MAX)
    /\ out.panic = "Vect2 overflow in add"

\* ------------------------------------------------------------------------
\* C4: the operators +, -, unary -, * scalar, / scalar and +=, -=, *=, /=
\* never panic, in either build: each component of the result is the IEEE
\* result of the component operation, infinite or NaN included, and the sum
\* of two vectors of f32::MAX has every component +infinity.
\* ------------------------------------------------------------------------
Zip(f(_, _), a, b) == [c \in DOMAIN a |-> f(a[c], b[c])]
Map(f(_, _), a, k) == [c \in DOMAIN a |-> f(a[c], k)]

UnguardedOps ==
    {"add", "sub", "mul", "div", "neg",
     "add_assign", "sub_assign", "mul_assign", "div_assign"}

C4_UnguardedNeverAbort ==
    /\ (pc = "done" /\ call.op \in UnguardedOps) => ~Panicked(out)
    /\ Done("add") => out.val = Zip(FAdd, call.recv, call.other)
    /\ Done("sub") => out.val = Zip(FSub, call.recv, call.other)
    /\ Done("mul") => out.val = Map(FMul, call.recv, call.k)
    /\ Done("div") => out.val = Map(FDiv, call.recv, call.k)
    /\ Done("neg") => out.val = [c \in DOMAIN call.recv |-> FNeg(call.recv[c])]
    /\ Done("add_assign") => self = Zip(FAdd, call.recv, call.other)
    /\ Done("sub_assign") => self = Zip(FSub, call.recv, call.other)
    /\ Done("mul_assign") => self = Map(FMul, call.recv, call.k)
    /\ Done("div_assign") => self = Map(FDiv, call.recv, call.k)
    /\ (Done("add") /\ AllMAX(call.recv) /\ AllMAX(call.other)) =>
        \A c \in DOMAIN out.val : out.val[c] = Inf(0)

\* (MAX, MAX, MAX) + (MAX, MAX, MAX) returned (inf, inf, inf) in a debug build
C4_Witness ==
    /\ Done("add")
    /\ mode = "debug"
    /\ call.recv = Vect3_new(MAX, MAX, MAX)
    /\ call.other = Vect3_new(MAX, MAX, MAX)
    /\ out = Ok(Vect3_new(Inf(0), Inf(0), Inf(0)))

\* ------------------------------------------------------------------------
\* C5: in a release build debug_checked_add, _sub, _mul and _div never panic
\* and return, for all operands, those that overflow or divide by zero
\* included, the value of the operator +, -, * scalar, / scalar.
\* ------------------------------------------------------------------------
ReleaseCase(op, raw) == (Done(op) /\ mode = "release") => out = raw

C5_CheckedRelease ==
    /\ ReleaseCase("debug_checked_add", add(call.recv, call.other))
    /\ ReleaseCase("debug_checked_sub", sub(call.recv, call.other))
    /\ ReleaseCase("debug_checked_mul", mul(call.recv, call.k))
    /\ ReleaseCase("debug_checked_div", div(call.recv, call.k))
    /\ (pc = "done" /\ mode = "release") => ~Panicked(out)

\* a checked division by zero returned its infinite quotient in release
C5_Witness ==
    /\ Done("debug_checked_div")
    /\ mode = "release"
    /\ call.k = Zero
    /\ call.recv = Vect2_new(One, MAX)
    /\ out = Ok(Vect2_new(Inf(0), Inf(0)))

\* ------------------------------------------------------------------------
\* C6: in a debug build debug_checked_div by +0.0 or -0.0 panics for every
\* vector, and with "<Type> division by zero", not the overflow message
\* (the zero guard comes first); by a non-zero scalar it panics exactly when
\* a component of the quotient is not finite.
\* ------------------------------------------------------------------------
C6_CheckedDivDebug ==
    (Done("debug_checked_div") /\ mode = "debug") =>
        LET raw == div(call.recv, call.k)
        IN  IF call.k \in {Zero, NegZero}
            THEN out.panic = TypeName(call.recv) \o " division by zero"
            ELSE /\ Panicked(out) <=> ~AllFinite(raw.val)
                 /\ Panicked(out) =>
                        out.panic = TypeName(call.recv) \o " overflow in div"
                 /\ ~Panicked(out) => out = raw

\* MAX / -0.0 is infinite, and the panic was the division-by-zero one
C6_Witness ==
    /\ Done("debug_checked_div")
    /\ mode = "debug"
    /\ call.k = NegZero
    /\ call.recv = Vect3_new(MAX, MAX, MAX)
    /\ out.panic = "Vect3 division by zero"

\* the length the code computes for v, guards aside: sqrt of the sum of squares
SumSq(v) ==
    IF Dim(v) = 2
    THEN FAdd(FMul(v.x, v.x), FMul(v.y, v.y))
    ELSE FAdd(FAdd(FMul(v.x, v.x), FMul(v.y, v.y)), FMul(v.z, v.z))
ZeroLength(v) == FEq(FSqrt(SumSq(v)), Zero)
\* a returned value, scalar or vector, is finite
ResultFinite(val) ==
    IF "k" \in DOMAIN val THEN is_finite(val) ELSE AllFinite(val)

\* ------------------------------------------------------------------------
\* C7: in a debug build no geometric query returns a non-finite value: it
\* panics instead, and the panic message names the query that was called
\* and the type ("<Type>::<query> produced NaN or infinity" or
\* "<Type>::<query> produced non-finite result"), for Vect2 and Vect3 alike.
\* ------------------------------------------------------------------------
GeomQueries ==
    {"length_squared", "length", "normalize", "dot", "cross", "distance",
     "distance_squared", "angle_between", "lerp", "reflect", "project",
     "angle", "rotate"}

GuardMessages(v, op) ==
    {TypeName(v) \o "::" \o op \o " produced NaN or infinity",
     TypeName(v) \o "::" \o op \o " produced non-finite result"}

C7_GuardNamesCalledQuery ==
    (pc = "done" /\ mode = "debug" /\ call.op \in GeomQueries) =>
        IF Panicked(out)
        THEN out.panic \in GuardMessages(call.recv, call.op)
        ELSE ResultFinite(out.val)

\* ------------------------------------------------------------------------
\* C8: angle_between(v, v) returns 0 and does not panic, for every v: the
\* zero vector, a vector whose length overflows, a vector with non-finite
\* components; in debug and in release.
\* ------------------------------------------------------------------------
C8_AngleBetweenSelfIsZero ==
    (Done("angle_between") /\ call.other = call.recv) => Returned(Zero)

\* ------------------------------------------------------------------------
\* C9: angle_between(a, b) returns 0 and does not panic whenever a or b has
\* zero length, whatever the other vector is.
\* ------------------------------------------------------------------------
C9_AngleBetweenZeroLength ==
    (Done("angle_between")
        /\ (ZeroLength(call.recv) \/ ZeroLength(call.other))) => Returned(Zero)

ZeroVector(v) == [c \in DOMAIN v |-> Zero]

C11_ProjectOntoZeroLength ==
    (Done("project") /\ AllFinite(call.recv) /\ FEq(SumSq(call.other), Zero)) =>
        Returned(ZeroVector(call.recv))

\* the target is not the zero vector, yet its squared length underflows to 0
C11_Witness ==
    /\ Done("project") /\ mode = "debug"
    /\ call.recv = Vect2_new(MAX, One)
    /\ call.other = Vect2_new(Tiny, Zero)
    /\ out = Ok(Vect2_new(Zero, Zero))

\* ------------------------------------------------------------------------
\* C12: the hash of a vector is fed the bit patterns of its components and
\* nothing else, x first, then y (then z): two vectors hash alike exactly
\* when their components have the same bits.  Two vectors that compare
\* equal with == hash alike, except when they differ in the sign of a zero
\* component: then they compare equal and hash differently.
\* ------------------------------------------------------------------------
SameBits(a, b) == \A c \in DOMAIN a : a[c] = b[c]
ZeroSignDiffers(a, b) ==
    \E c \in DOMAIN a : FIsZero(a[c]) /\ FIsZero(b[c]) /\ a[c].s # b[c].s

C12_HashAgreesWithEq ==
    Done("hash") =>
        LET a == call.recv
            b == call.other
            r == out.val
        IN  /\ ~Panicked(out)
            /\ Len(r.h1) = Dim(a) /\ Len(r.h2) = Dim(b)
            /\ (r.h1 = r.h2) <=> SameBits(a, b)
            /\ (r.eq /\ ~ZeroSignDiffers(a, b)) => r.h1 = r.h2
            /\ (r.eq /\ ZeroSignDiffers(a, b)) => r.h1 # r.h2

\* (1.0, +0.0) and (1.0, -0.0): equal, and not the same hash
C12_Witness ==
    /\ Done("hash")
    /\ call.recv = Vect2_new(One, Zero)
    /\ call.other = Vect2_new(One, NegZero)
    /\ out.val.eq
    /\ out.val.h1 # out.val.h2

\* ------------------------------------------------------------------------
\* C13: is_parallel(a, a * k) returns true and does not panic, for every
\* vector a and every scalar k > 0, of either type, in debug and in
\* release, vectors whose cross-product terms overflow included.  Stated
\* here for the vectors a with finite components and the finite k alone.
\* ------------------------------------------------------------------------
PositiveScalars == {k \in Scalars \cup Ts : is_finite(k) /\ k.n > 0 /\ k.s = 0}

C13_ParallelToOwnMultiple ==
    (Done("is_parallel") /\ AllFinite(call.recv)
        /\ \E k \in PositiveScalars : call.other = Map(FMul, call.recv, k)) =>
            Returned(Bool(TRUE))

\* ------------------------------------------------------------------------
\* C14: when try_from fails, the message of the error indicates the
\* expected length, the element type of the slice (f32 or i32), and the
\* actual length of the slice that was handed in.  A message that indicates
\* the actual length is not the message given for a slice of another
\* length.
\* ------------------------------------------------------------------------
TryFromOps ==
    {"Vect2::try_from(&[f32])", "Vect2::try_from(&[i32])",
     "Vect3::try_from(&[f32])", "Vect3::try_from(&[i32])"}
Failed == pc = "done" /\ call.op \in TryFromOps /\ ~out.val.ok
\* what the same conversion gives for every slice of the sample
ResultsOf(op) ==
    CASE op = "Vect2::try_from(&[f32])" ->
            {<<Len(sl), Vect2_try_from_f32(sl)>> : sl \in SlicesOf(SliceF32s)}
      [] op = "Vect2::try_from(&[i32])" ->
            {<<Len(sl), Vect2_try_from_i32(sl)>> : sl \in SlicesOf(SliceI32s)}
      [] op = "Vect3::try_from(&[f32])" ->
            {<<Len(sl), Vect3_try_from_f32(sl)>> : sl \in SlicesOf(SliceF32s)}
      [] op = "Vect3::try_from(&[i32])" ->
            {<<Len(sl), Vect3_try_from_i32(sl)>> : sl \in SlicesOf(SliceI32s)}
ActualLength == Len(call.slice) + Len(call.ints)
\* "Expected slice of length 2 for Vect2<f32>": the expected length, the
\* type and the element type
MessageFor(dim, elem) ==
    LET d == IF dim = 2 THEN "2" ELSE "3"
    IN  "Expected slice of length " \o d \o " for Vect" \o d \o "<" \o elem \o ">"
ExpectedAndElement ==
    /\ (Failed /\ call.op = "Vect2::try_from(&[f32])") => out.val.err = MessageFor(2, "f32")
    /\ (Failed /\ call.op = "Vect2::try_from(&[i32])") => out.val.err = MessageFor(2, "i32")
    /\ (Failed /\ call.op = "Vect3::try_from(&[f32])") => out.val.err = MessageFor(3, "f32")
    /\ (Failed /\ call.op = "Vect3::try_from(&[i32])") => out.val.err = MessageFor(3, "i32")

\* the claim as made: the message tells the actual length as well
C14_MessageTellsActualLength ==
    /\ ExpectedAndElement
    /\ Failed =>
        \A lr \in ResultsOf(call.op) :
            (~lr[2].ok /\ lr[1] # ActualLength) => lr[2].err # out.val.err

\* C14 as amended: the message indicates the expected length and the
\* element type (and the vector type); it is one fixed text for each
\* conversion, the same for every slice that fails, whatever its length.
C14_MessageIsFixed ==
    /\ ExpectedAndElement
    /\ Failed =>
        \A lr \in ResultsOf(call.op) : ~lr[2].ok => lr[2].err = out.val.err

\* three integers handed to the conversion to a Vect2
C14_Witness ==
    /\ Done("Vect2::try_from(&[i32])")
    /\ Len(call.ints) = 3
    /\ ~out.val.ok
    /\ out.val.err = "Expected slice of length 2 for Vect2<i32>"

\* ------------------------------------------------------------------------
\* C15: for all a and b with finite components, lerp(a, b, 0) returns a
\* and lerp(a, b, 1) returns b, without panicking, also when b - a
\* overflows.  "Returns a" is read as: returns a vector equal to a (==).
\* ------------------------------------------------------------------------
\* the call returned a vector equal to v under ==
ReturnedEqual(v) ==
    /\ ~Panicked(out)
    /\ \A c \in DOMAIN v : FEq(out.val[c], v[c])
LerpOfFinite(t) ==
    Done("lerp") /\ call.k = t /\ AllFinite(call.recv) /\ AllFinite(call.other)

DifferenceFinite(a, b) == \A c \in DOMAIN a : is_finite(FSub(b[c], a[c]))
\* no component of b - a is rounded: the float is the real difference
DifferenceExact(a, b) ==
    \A c \in DOMAIN a :
        /\ is_finite(FSub(b[c], a[c]))
        /\ Signed(FSub(b[c], a[c])) = Signed(b[c]) - Signed(a[c])

IsZeroVector(v) == \A c \in DOMAIN v : FIsZero(v[c])

====
